---- MODULE Spec2Model ----
(***************************************************************************)
(* A model of giffer.py: the command line tool that cuts a clip out of a   *)
(* video and writes it as an animated GIF.                                  *)
(*                                                                         *)
(* The run is one sequential process.  pc is its position in giffer() and  *)
(* make_gif(); req is the command line; the remaining variables are the    *)
(* locals of the functions and the observable effects of the run (capture  *)
(* handles opened, frames decoded, the writer, the output file, the error  *)
(* that ended the run).                                                    *)
(*                                                                         *)
(* The libraries are modelled by what the calls of giffer.py rely on:      *)
(*   cv2.VideoCapture   a source of N frames with indices 0..N-1 and a     *)
(*                      cursor; read() decodes the frame at the cursor and *)
(*                      advances it, or fails at the end of the stream;    *)
(*                      CAP_PROP_POS_FRAMES is the 0-based index of the    *)
(*                      frame to be decoded next.                          *)
(*   cv2.getTextSize    the Hershey text box: a height and a width that    *)
(*                      grow linearly with the font scale.                 *)
(*   cv2.resize         fails unless both output sizes are at least 1.     *)
(*   imageio writer     appended frames are written to the output path     *)
(*                      when the writer is closed.                         *)
(*   Python floats      IEEE-754 binary64, round to nearest even.          *)
(***************************************************************************)
EXTENDS Integers, Sequences, FiniteSets, TLC

VARIABLES req, pc, start_frame, end_frame, dim, scale, handles, decoded,
          cursor, i, frame, writer, opens, appended, output, readLog,
          err, errType, errFrame, tracebacklimit, exitcode, tracePrinted

vars == <<req, pc, start_frame, end_frame, dim, scale, handles, decoded,
          cursor, i, frame, writer, opens, appended, output, readLog,
          err, errType, errFrame, tracebacklimit, exitcode, tracePrinted>>

(***************************************************************************)
(* Bounds of the explored inputs.                                          *)
(***************************************************************************)
\* the source holds at most MaxFrames frames (0: the input cannot be read)
MaxFrames == 5
\* start and end times are 0, 1/2, 1, ... MaxTime/2 seconds
MaxTime == 3
\* the source's frame rate is 1..MaxFps frames per second
MaxFps == 2
\* native width and height are 1..MaxNative pixels
MaxNative == 22
\* --text-size is 0..MaxTextSize, --line-width is 1..MaxLineWidth
MaxTextSize == 24
MaxLineWidth == 5

(***************************************************************************)
(* Program constants.                                                      *)
(***************************************************************************)
FRAME_STEP_SIZE == 2

colors == {"red", "orange", "yellow", "green", "blue", "purple", "white",
           "black", "gray"}

font_faces == {"complex", "complex_small", "duplex", "plain",
               "script_complex", "script_simplex", "simplex", "triplex"}

\* Python's None, and a value that is not None
None == <<>>
Some(x) == <<x>>

Max(a, b) == IF a >= b THEN a ELSE b

(***************************************************************************)
(* IEEE-754 binary64 arithmetic of get_output_dimensions.                  *)
(*                                                                         *)
(* A positive double is a 53 bit mantissa times a power of two.  The       *)
(* mantissa is held as limbs of LimbBits bits, most significant first:     *)
(* <<1, d1, d2, d3, d4>> is the 53 bit number 1.d1 d2 d3 d4 (4 * 13 = 52   *)
(* fraction bits).                                                         *)
(***************************************************************************)
LimbBits == 13
Limb == 8192

RECURSIVE Pow2(_)
Pow2(n) == IF n <= 0 THEN 1 ELSE 2 * Pow2(n - 1)

RECURSIVE BitLen(_)
BitLen(n) == IF n = 0 THEN 0 ELSE 1 + BitLen(n \div 2)

\* a / b = (num / den) * 2^exp with den <= num < 2 * den
RECURSIVE Normalise(_, _, _)
Normalise(a, b, e) ==
    IF a < b THEN Normalise(2 * a, b, e - 1)
    ELSE IF a >= 2 * b THEN Normalise(a, 2 * b, e + 1)
    ELSE [num |-> a, den |-> b, exp |-> e]

\* limbs + 1 unit of limb j, the carry rippling towards limb 1
RECURSIVE AddUnit(_, _)
AddUnit(limbs, j) ==
    IF j > 1 /\ limbs[j] = Limb - 1
    THEN AddUnit([limbs EXCEPT ![j] = 0], j - 1)
    ELSE [limbs EXCEPT ![j] = limbs[j] + 1]

\* the limbs of floor(num * 2^52 / den) after the leading 1, by long division
RECURSIVE LongDiv(_, _, _)
LongDiv(r, den, n) ==
    IF n = 0 THEN [limbs |-> <<>>, rem |-> r]
    ELSE LET rest == LongDiv((r * Limb) % den, den, n - 1)
         IN  [limbs |-> <<(r * Limb) \div den>> \o rest.limbs, rem |-> rest.rem]

\* the double a / b for integers a, b > 0: the quotient rounded to 53 bits,
\* ties to even
FloatDiv(a, b) ==
    LET n == Normalise(a, b, 0)
        q == LongDiv(n.num - n.den, n.den, 4)
        floor == <<1>> \o q.limbs
        up == \/ 2 * q.rem > n.den
              \/ 2 * q.rem = n.den /\ floor[5] % 2 = 1
        m == IF up THEN AddUnit(floor, 5) ELSE floor
    IN  IF m[1] = 2 THEN [mant |-> <<1, 0, 0, 0, 0>>, exp |-> n.exp + 1]
        ELSE [mant |-> m, exp |-> n.exp]

\* w * limbs, exactly: the four low limbs stay below Limb, the top one grows
RECURSIVE MulLimbs(_, _, _, _)
MulLimbs(w, limbs, j, carry) ==
    IF j = 1 THEN <<w * limbs[1] + carry>>
    ELSE LET v == w * limbs[j] + carry
         IN  MulLimbs(w, limbs, j - 1, v \div Limb) \o <<v % Limb>>

\* int(w * f) for an integer w >= 1 and a positive double f: the exact product
\* rounded to 53 bits, ties to even, then truncated to an integer
FloatMulTrunc(w, f) ==
    LET p == MulLimbs(w, f.mant, 5, 0)
        s == BitLen(p[1]) - 1
        low == p[5] % Pow2(s)
        kept == [p EXCEPT ![5] = p[5] - low]
        up == /\ s > 0
              /\ \/ 2 * low > Pow2(s)
                 \/ 2 * low = Pow2(s) /\ (p[5] \div Pow2(s)) % 2 = 1
        r == IF ~up THEN kept
             ELSE IF kept[5] + Pow2(s) >= Limb
                  THEN AddUnit([kept EXCEPT ![5] = kept[5] + Pow2(s) - Limb], 4)
                  ELSE [kept EXCEPT ![5] = kept[5] + Pow2(s)]
    IN  (r[1] * Limb + r[2]) \div Pow2(LimbBits - f.exp)

(***************************************************************************)
(* get_output_dimensions, lines 79-91: the output size for a native size   *)
(* (width, height) and a --max-dimension.                                  *)
(***************************************************************************)
\* int(side * (max_dimension / max_input_dimension)), lines 85-87
ScaleSide(side, max_dimension, max_input_dimension) ==
    IF max_dimension > 0
    THEN FloatMulTrunc(side, FloatDiv(max_dimension, max_input_dimension))
    ELSE 0 - FloatMulTrunc(side, FloatDiv(0 - max_dimension, max_input_dimension))

\* `if max_dimension:` (line 81): None and 0 are both false
Truthy(max_dimension) == max_dimension # None /\ max_dimension[1] # 0

\* line 82
Oversize(width, height, max_dimension) ==
    Truthy(max_dimension) /\ max_dimension[1] > Max(width, height)

get_output_dimensions(width, height, max_dimension) ==
    LET max_input_dimension == Max(width, height)
    IN  IF Truthy(max_dimension)
        THEN <<ScaleSide(width, max_dimension[1], max_input_dimension),
               ScaleSide(height, max_dimension[1], max_input_dimension)>>
        ELSE <<width, height>>

(***************************************************************************)
(* cv2.getTextSize as find_subtitle_info uses it (line 113), for the       *)
(* Hershey simplex face.  The scale is held as a count k of tenths: the    *)
(* double that `scale` holds after 100 - k subtractions of 0.1 from 10 is  *)
(* k/10 + d with d = 0 for k = 100 and 0 < d < 3e-14 for k < 100 (after    *)
(* 100 subtractions it is 1.879e-14, not 0), so a box size that falls on   *)
(* a half is rounded up, and the double for k = 0 is still positive.       *)
(***************************************************************************)
\* cap line + base line of the simplex face, in pixels at scale 1
HersheyHeight == 21

\* the scale find_subtitle_info starts from (line 110), in tenths
StartScale == 100

\* text_size[1]: cvRound((cap + base) * scale + (thickness + 1) / 2)
TextHeight(k, line_width) ==
    (HersheyHeight * k + 5) \div 10 + (line_width + 1) \div 2

\* text_size[0]: cvRound(sum of the glyph advances * scale + thickness);
\* advance is the sum of the glyph advances of the subtitle at scale 1
TextWidth(advance, k, line_width) ==
    (advance * k + 5) \div 10 + line_width

\* a fitter that also steps down when the text is exactly the desired height
HeightNotBelow(height, desired_height) == height >= desired_height

\* line 114
HeightTooBig(height, desired_height) == height > desired_height

\* line 117
WidthTooBig(width, max_width) == width > max_width

\* `scale <= 0` (line 120) on the double that holds k tenths
ScaleNotPositive(k) == k < 0

(***************************************************************************)
(* find_subtitle_info, lines 110-121.  The result is the scale returned,   *)
(* or the exception raised.                                                *)
(***************************************************************************)
RECURSIVE SubtitleLoop(_, _, _, _, _)
SubtitleLoop(advance, line_width, desired_height, max_width, k) ==
    IF HeightTooBig(TextHeight(k, line_width), desired_height)
    THEN IF ScaleNotPositive(k - 1)
         THEN [raised |-> "ValueError", kind |-> "scale", scale |-> k - 1]
         ELSE SubtitleLoop(advance, line_width, desired_height, max_width, k - 1)
    ELSE IF WidthTooBig(TextWidth(advance, k, line_width), max_width)
         THEN [raised |-> "GifferError", kind |-> "wontfit", scale |-> k]
         ELSE [raised |-> "none", kind |-> "none", scale |-> k]

find_subtitle_info(advance, line_width, desired_height, max_width) ==
    SubtitleLoop(advance, line_width, desired_height, max_width, StartScale)

(***************************************************************************)
(* The video source and the capture cursor.                                *)
(***************************************************************************)
\* video.get(cv2.CAP_PROP_FPS), line 56: 0 when the input cannot be opened
VideoFps(r) == IF r.N = 0 THEN 0 ELSE r.fps

\* int(fps * time), lines 57-58; time is r.start / 2 or r.end / 2 seconds, so
\* the product is a multiple of 1/2 and the double holds it exactly
FrameAt(fps, halves) == (fps * halves) \div 2

\* video.set(cv2.CAP_PROP_POS_FRAMES, start_frame - 1), line 149: the position
\* is the index of the frame the next read decodes; a negative position
\* leaves the cursor at the first frame
SeekPosition(first) == Max(first - 1, 0)

\* video.read() at cursor position pos of a source of n frames
ReadOk(pos, n) == pos < n
AfterRead(pos, n) == IF pos < n THEN pos + 1 ELSE pos

\* cv2.resize (line 158) accepts the output size
ResizeOk(d) == d[1] >= 1 /\ d[2] >= 1

\* a writer used without the with statement: nothing closes it
WriterLeftOpen(w) == w

\* the with statement of line 150: leaving the block closes the writer
WriterOnExit(w) == IF w = "open" THEN "closed" ELSE w

(***************************************************************************)
(* The command lines explored.                                             *)
(***************************************************************************)
DefaultReq ==
    [N |-> 3, fps |-> 1, start |-> 0, end |-> 2, W |-> 4, H |-> 3,
     max_dimension |-> None, subtitle |-> None, color |-> "white",
     font_face |-> "simplex", line_width |-> 2, text_size |-> 15]

\* clips: every source length, frame rate, start and end time, with known and
\* unknown color and font names, some --max-dimension values and a subtitle
ClipRequests ==
    { [DefaultReq EXCEPT !.N = n, !.fps = f, !.start = s, !.end = e,
                         !.color = c, !.font_face = ff,
                         !.max_dimension = m, !.subtitle = st] :
        n \in 0..MaxFrames, f \in 1..MaxFps, s \in 0..MaxTime, e \in 0..MaxTime,
        c \in {"white", "magenta"}, ff \in {"simplex", "comic"},
        m \in {None, Some(1), Some(2), Some(5)}, st \in {None, Some(40)} }

\* sizes: every native size and every --max-dimension, also 0 and negative
DimensionRequests ==
    { [DefaultReq EXCEPT !.W = w, !.H = h, !.max_dimension = m] :
        w \in 1..MaxNative, h \in 1..MaxNative,
        m \in {None} \cup {Some(x) : x \in (0 - 2)..(MaxNative + 1)} }

\* captions: subtitles of several lengths on frames of several widths, every
\* text size and line width
CaptionRequests ==
    { [DefaultReq EXCEPT !.W = w, !.subtitle = Some(a), !.text_size = t,
                         !.line_width = lw] :
        w \in {8, 40, 200}, a \in {4, 40, 120},
        t \in 0..MaxTextSize, lw \in 1..MaxLineWidth }

Requests == ClipRequests \cup DimensionRequests \cup CaptionRequests

Init ==
    /\ req \in Requests
    /\ pc = "get_start_and_end_frame"
    /\ start_frame = 0
    /\ end_frame = 0
    /\ dim = None
    /\ scale = None
    /\ handles = 0
    /\ decoded = 0
    /\ cursor = 0
    /\ i = 0
    /\ frame = None
    /\ writer = "none"
    /\ opens = 0
    /\ appended = <<>>
    /\ output = None
    /\ readLog = <<>>
    /\ err = "none"
    /\ errType = "none"
    /\ errFrame = None
    /\ tracebacklimit = None
    /\ exitcode = None
    /\ tracePrinted = FALSE

(***************************************************************************)
(* An exception that nothing catches ends the run.  GifferError.__init__   *)
(* (lines 36-39) sets sys.tracebacklimit to 0, and the interpreter prints  *)
(* the traceback of an uncaught exception unless that limit is 0.  An      *)
(* exception that leaves the with block of line 150 closes the writer,     *)
(* which writes the frames appended so far to the output path.             *)
(***************************************************************************)
Raise(type, kind, f) ==
    /\ pc' = "failed"
    /\ err' = kind
    /\ errType' = type
    /\ errFrame' = f
    /\ tracebacklimit' = IF type = "GifferError" THEN Some(0) ELSE tracebacklimit
    /\ tracePrinted' = (tracebacklimit' # Some(0))
    /\ exitcode' = Some(1)
    /\ writer' = WriterOnExit(writer)
    /\ output' = IF writer = "open" /\ writer' = "closed" THEN Some(appended)
                 ELSE output

NoRaise ==
    UNCHANGED <<err, errType, errFrame, tracebacklimit, tracePrinted, exitcode>>

(***************************************************************************)
(* giffer(), lines 197-223.                                                *)
(***************************************************************************)
\* line 197, get_start_and_end_frame (lines 55-59)
GetStartAndEndFrame ==
    /\ pc = "get_start_and_end_frame"
    /\ handles' = handles + 1
    /\ start_frame' = FrameAt(VideoFps(req), req.start)
    /\ end_frame' = FrameAt(VideoFps(req), req.end)
    /\ pc' = "get_output_dimensions"
    /\ NoRaise
    /\ UNCHANGED <<req, dim, scale, decoded, cursor, i, frame, writer, opens,
                   appended, output, readLog>>

\* line 199, get_output_dimensions (lines 74-93): a capture of its own, the
\* first frame read for its shape
GetOutputDimensions ==
    /\ pc = "get_output_dimensions"
    /\ handles' = handles + 1
    /\ readLog' = Append(readLog, [kind |-> "shape", i |-> 0, pos |-> 0,
                                   ok |-> ReadOk(0, req.N)])
    /\ UNCHANGED <<req, start_frame, end_frame, scale, cursor, i, frame,
                   opens, appended>>
    /\ IF ~ReadOk(0, req.N)
       THEN /\ Raise("GifferError", "unreadable", None)
            /\ UNCHANGED <<dim, decoded>>
       ELSE /\ decoded' = decoded + 1
            /\ IF Oversize(req.W, req.H, req.max_dimension)
               THEN /\ Raise("GifferError", "oversize", None)
                    /\ UNCHANGED dim
               ELSE /\ dim' = Some(get_output_dimensions(req.W, req.H,
                                                         req.max_dimension))
                    /\ pc' = "color"
                    /\ NoRaise
                    /\ UNCHANGED <<writer, output>>

\* lines 201-204
LookupColor ==
    /\ pc = "color"
    /\ UNCHANGED <<req, start_frame, end_frame, dim, scale, handles, decoded,
                   cursor, i, frame, opens, appended, readLog>>
    /\ IF req.color \in colors
       THEN /\ pc' = "font_face"
            /\ NoRaise
            /\ UNCHANGED <<writer, output>>
       ELSE Raise("GifferError", "color", None)

\* lines 206-209
LookupFontFace ==
    /\ pc = "font_face"
    /\ UNCHANGED <<req, start_frame, end_frame, dim, scale, handles, decoded,
                   cursor, i, frame, opens, appended, readLog>>
    /\ IF req.font_face \in font_faces
       THEN /\ pc' = "make_gif"
            /\ NoRaise
            /\ UNCHANGED <<writer, output>>
       ELSE Raise("GifferError", "font_face", None)

(***************************************************************************)
(* make_gif(), lines 144-175.                                              *)
(***************************************************************************)
\* lines 144-146: the caption is fitted once, before the capture is opened
FitSubtitle ==
    /\ pc = "make_gif"
    /\ UNCHANGED <<req, start_frame, end_frame, dim, handles, decoded, cursor,
                   i, frame, opens, appended, readLog>>
    /\ IF req.subtitle = None
       THEN /\ pc' = "capture"
            /\ NoRaise
            /\ UNCHANGED <<scale, writer, output>>
       ELSE LET r == find_subtitle_info(req.subtitle[1], req.line_width,
                                        req.text_size, dim[1][1])
            IN  IF r.raised = "none"
                THEN /\ scale' = Some(r.scale)
                     /\ pc' = "capture"
                     /\ NoRaise
                     /\ UNCHANGED <<writer, output>>
                ELSE /\ Raise(r.raised, r.kind, None)
                     /\ UNCHANGED scale

\* lines 148-149: the capture of the pipeline, and the seek
OpenCapture ==
    /\ pc = "capture"
    /\ handles' = handles + 1
    /\ cursor' = SeekPosition(start_frame)
    /\ pc' = "get_writer"
    /\ NoRaise
    /\ UNCHANGED <<req, start_frame, end_frame, dim, scale, decoded, i, frame,
                   writer, opens, appended, output, readLog>>

\* line 150: the writer is opened, and the loop variable takes its first value
GetWriter ==
    /\ pc = "get_writer"
    /\ writer' = "open"
    /\ opens' = opens + 1
    /\ i' = start_frame
    /\ pc' = "for"
    /\ NoRaise
    /\ UNCHANGED <<req, start_frame, end_frame, dim, scale, handles, decoded,
                   cursor, frame, appended, output, readLog>>

\* lines 151-154: the next target index is within the range; its frame is read
ReadFrame ==
    /\ pc = "for"
    /\ i <= end_frame
    /\ readLog' = Append(readLog, [kind |-> "target", i |-> i, pos |-> cursor,
                                   ok |-> ReadOk(cursor, req.N)])
    /\ cursor' = AfterRead(cursor, req.N)
    /\ UNCHANGED <<req, start_frame, end_frame, dim, scale, handles, i, opens,
                   appended>>
    /\ IF ReadOk(cursor, req.N)
       THEN /\ frame' = Some(cursor)
            /\ decoded' = decoded + 1
            /\ pc' = "convert"
            /\ NoRaise
            /\ UNCHANGED <<writer, output>>
       ELSE /\ Raise("GifferError", "frame", Some(i))
            /\ UNCHANGED <<frame, decoded>>

\* lines 156-170: the frame is converted, resized, captioned and appended
AppendFrame ==
    /\ pc = "convert"
    /\ UNCHANGED <<req, start_frame, end_frame, dim, scale, handles, decoded,
                   cursor, i, frame, opens, readLog>>
    /\ IF ResizeOk(dim[1])
       THEN /\ appended' = Append(appended, frame[1])
            /\ pc' = "skip"
            /\ NoRaise
            /\ UNCHANGED <<writer, output>>
       ELSE /\ Raise("cv2.error", "resize", None)
            /\ UNCHANGED appended

\* lines 172-175: FRAME_STEP_SIZE - 1 frames are read and thrown away, whether
\* the reads succeed or not; then the loop variable advances
RECURSIVE SkipReads(_, _, _, _)
SkipReads(n, pos, log, target) ==
    IF n = 0 THEN [pos |-> pos, log |-> log]
    ELSE SkipReads(n - 1, AfterRead(pos, req.N),
                   Append(log, [kind |-> "skip", i |-> target, pos |-> pos,
                                ok |-> ReadOk(pos, req.N)]),
                   target)

\* a skip loop that checks its reads as line 153 checks the target read
SkipFramesChecked ==
    /\ pc = "skip"
    /\ LET r == SkipReads(FRAME_STEP_SIZE - 1, cursor, readLog, i)
       IN  /\ cursor' = r.pos
           /\ readLog' = r.log
           /\ decoded' = decoded + (r.pos - cursor)
           /\ IF r.pos - cursor = FRAME_STEP_SIZE - 1
              THEN /\ i' = i + FRAME_STEP_SIZE
                   /\ pc' = "for"
                   /\ NoRaise
                   /\ UNCHANGED <<writer, output>>
              ELSE /\ Raise("GifferError", "frame", Some(i))
                   /\ UNCHANGED i
    /\ UNCHANGED <<req, start_frame, end_frame, dim, scale, handles, frame,
                   opens, appended>>

SkipFrames ==
    /\ pc = "skip"
    /\ LET r == SkipReads(FRAME_STEP_SIZE - 1, cursor, readLog, i)
       IN  /\ cursor' = r.pos
           /\ readLog' = r.log
           /\ decoded' = decoded + (r.pos - cursor)
    /\ i' = i + FRAME_STEP_SIZE
    /\ pc' = "for"
    /\ NoRaise
    /\ UNCHANGED <<req, start_frame, end_frame, dim, scale, handles, frame,
                   writer, opens, appended, output>>

\* the range of line 151 is exhausted: the with block ends, the writer is
\* closed, make_gif and giffer return
CloseWriter ==
    /\ pc = "for"
    /\ i > end_frame
    /\ writer' = WriterOnExit(writer)
    /\ output' = Some(appended)
    /\ pc' = "done"
    /\ exitcode' = Some(0)
    /\ UNCHANGED <<req, start_frame, end_frame, dim, scale, handles, decoded,
                   cursor, i, frame, opens, appended, readLog, err, errType,
                   errFrame, tracebacklimit, tracePrinted>>

Next ==
    \/ GetStartAndEndFrame
    \/ GetOutputDimensions
    \/ LookupColor
    \/ LookupFontFace
    \/ FitSubtitle
    \/ OpenCapture
    \/ GetWriter
    \/ ReadFrame
    \/ AppendFrame
    \/ SkipFrames
    \/ CloseWriter

Spec == Init /\ [][Next]_vars

(***************************************************************************)
(* Vocabulary of the properties.                                           *)
(***************************************************************************)
Terminated == pc \in {"done", "failed"}

\* the target indices of the loop of line 151, in order
RECURSIVE Targets(_, _)
Targets(first, last) ==
    IF first > last THEN <<>>
    ELSE <<first>> \o Targets(first + FRAME_STEP_SIZE, last)

\* the reads of the log of one kind, and of one kind and outcome
ReadsOf(kind) == {k \in DOMAIN readLog : readLog[k].kind = kind}
ReadsWith(kind, ok) == {k \in ReadsOf(kind) : readLog[k].ok = ok}

\* get_output_dimensions has returned or raised
DimensionsDecided == pc \notin {"get_start_and_end_frame", "get_output_dimensions"}

\* the caption fitter has returned or raised
Fitted == req.subtitle # None /\ (scale # None \/ err \in {"wontfit", "scale"})

\* the scales the fitter steps through, in tenths
Scales == 0..StartScale

HeightFits(k) == TextHeight(k, req.line_width) <= req.text_size
WidthFits(k) == TextWidth(req.subtitle[1], k, req.line_width) <= dim[1][1]

Largest(S) == CHOOSE k \in S : \A j \in S : j <= k

(***************************************************************************)
(* C1: the frames appended are, in order and once each, the source frames  *)
(* start_frame, start_frame + FRAME_STEP_SIZE, ... up to end_frame: at the *)
(* start of every iteration i the next read yields source frame i, and a   *)
(* run that ends normally has appended exactly the target frames.          *)
(***************************************************************************)
C1_AppendedFramesAreTheTargets ==
    /\ (pc = "for" /\ i <= end_frame) => cursor = i
    /\ pc = "done" => appended = Targets(start_frame, end_frame)

(***************************************************************************)
(* C2: for a readable source of native size (W, H) and a positive          *)
(* --max-dimension m: m > max(W, H) fails with the oversize error and the  *)
(* writer is never opened; otherwise the result is                         *)
(* (floor(W*m/max(W,H)), floor(H*m/max(W,H))); without --max-dimension the *)
(* result is (W, H).                                                       *)
(***************************************************************************)
C2_OutputDimensionsAreTheFloors ==
    (DimensionsDecided /\ req.N > 0) =>
        LET m == req.max_dimension
            big == Max(req.W, req.H)
        IN  /\ m = None => dim = Some(<<req.W, req.H>>)
            /\ (m # None /\ m[1] > big) =>
                   /\ err = "oversize"
                   /\ pc = "failed"
                   /\ opens = 0
                   /\ output = None
            /\ (m # None /\ m[1] >= 1 /\ m[1] <= big) =>
                   dim = Some(<<(req.W * m[1]) \div big, (req.H * m[1]) \div big>>)

(***************************************************************************)
(* C3: an unknown color or font name ends the run with the unsupported     *)
(* name error, whatever the other arguments are, and when that error is    *)
(* raised no capture has been opened, no frame decoded and no output       *)
(* written.                                                                *)
(***************************************************************************)
C3_NamesCheckedBeforeAnyDecoding ==
    /\ (pc = "failed" /\ (req.color \notin colors \/ req.font_face \notin font_faces))
           => err \in {"color", "font_face"}
    /\ err \in {"color", "font_face"} =>
           /\ handles = 0
           /\ decoded = 0
           /\ output = None

(***************************************************************************)
(* C4: a run that ends in an error leaves no output file that holds a      *)
(* truncated animation.                                                    *)
(***************************************************************************)
C4_FailureLeavesNoPartialOutput ==
    pc = "failed" => (output = None \/ output[1] = <<>>)

(***************************************************************************)
(* C5: the writer is opened at most once; a run that opened it has closed  *)
(* it when it terminates, whether it returns or raises; and what the       *)
(* closed writer wrote is all that was ever appended.                      *)
(***************************************************************************)
C5_WriterClosedOnEveryExit ==
    /\ opens <= 1
    /\ (Terminated /\ opens > 0) => writer = "closed"
    /\ writer = "closed" => (Terminated /\ output = Some(appended))
    /\ writer = "none" => (opens = 0 /\ appended = <<>> /\ output = None)

\* a target read failed after frames had been appended, and the writer is closed
C5_ClosedAfterFailedRead ==
    /\ pc = "failed"
    /\ err = "frame"
    /\ Len(appended) >= 1
    /\ writer = "closed"

(***************************************************************************)
(* C6: a run that opens the writer or reads a frame in the pipeline has    *)
(* end > start; a request with end <= start ends with a non-zero exit      *)
(* status and no output.                                                   *)
(***************************************************************************)
C6_EndMustExceedStart ==
    /\ (opens > 0 \/ ReadsOf("target") # {}) => req.end > req.start
    /\ (Terminated /\ req.end <= req.start) =>
           (exitcode = Some(1) /\ output = None)

(***************************************************************************)
(* C7: every output dimension that get_output_dimensions returns has a     *)
(* width and a height of at least 1.                                       *)
(***************************************************************************)
C7_OutputDimensionIsPositive ==
    dim # None => (dim[1][1] >= 1 /\ dim[1][2] >= 1)

(***************************************************************************)
(* C8, as claimed: find_subtitle_info returns the largest scale at which   *)
(* the text height does not exceed the target height and the text width    *)
(* does not exceed the frame width, and fails only if no scale satisfies   *)
(* both.                                                                   *)
(***************************************************************************)
C8_LargestScaleFittingHeightAndWidth ==
    Fitted =>
        LET both == {k \in Scales : HeightFits(k) /\ WidthFits(k)}
        IN  /\ scale # None => (both # {} /\ scale[1] = Largest(both))
            /\ err \in {"wontfit", "scale"} => both = {}

(***************************************************************************)
(* C8, as amended: find_subtitle_info finds the largest scale at which the *)
(* text height does not exceed the target height; it returns that scale if *)
(* the text width at that scale does not exceed the frame width and fails  *)
(* with the won't-fit error if it does, smaller scales being left untried; *)
(* it fails with the invalid-scale error if no scale meets the height.     *)
(***************************************************************************)
C8_LargestScaleFittingHeight ==
    Fitted =>
        LET high == {k \in Scales : HeightFits(k)}
        IN  /\ scale # None =>
                   /\ high # {}
                   /\ scale[1] = Largest(high)
                   /\ WidthFits(scale[1])
                   /\ err \notin {"wontfit", "scale"}
            /\ err = "wontfit" =>
                   /\ high # {}
                   /\ ~WidthFits(Largest(high))
                   /\ scale = None
            /\ err = "scale" => (high = {} /\ scale = None)

\* the fitter failed on the width although a smaller scale fits both ways
C8_FailedThoughSmallerScaleFits ==
    /\ Fitted
    /\ err = "wontfit"
    /\ \E k \in Scales : HeightFits(k) /\ WidthFits(k)

(***************************************************************************)
(* C9: every failure kind of the taxonomy (unreadable input, oversize max  *)
(* dimension, frame read failure, caption that does not fit, unknown color *)
(* or font, invalid scale) is raised as GifferError and reported by its    *)
(* message only, with a non-zero exit status.  Stated for positive         *)
(* --text-size and --line-width, the values the interface documents.       *)
(***************************************************************************)
C9_EveryFailureIsAGifferError ==
    (/\ req.text_size >= 1
     /\ err \in {"unreadable", "oversize", "frame", "wontfit", "color",
                 "font_face", "scale"}) =>
        /\ errType = "GifferError"
        /\ ~tracePrinted
        /\ exitcode = Some(1)

(***************************************************************************)
(* C10: make_gif fails with the frame read error exactly when a target     *)
(* read fails; the error names the target index of that iteration and is   *)
(* raised at once, nothing being read or appended after it; a failed       *)
(* discard read never ends the run, so a source that holds every target    *)
(* index is never reported unreadable.                                     *)
(***************************************************************************)
C10_FrameErrorIffTargetReadFails ==
    /\ err = "frame" <=> ReadsWith("target", FALSE) # {}
    /\ err = "frame" =>
           /\ pc = "failed"
           /\ errType = "GifferError"
           /\ ReadsWith("target", FALSE) = {Len(readLog)}
           /\ errFrame = Some(readLog[Len(readLog)].i)
           /\ errFrame = Some(i)
           /\ Len(appended) = Cardinality(ReadsWith("target", TRUE))
    /\ (pc = "failed" /\ readLog # <<>>) => readLog[Len(readLog)].kind # "skip"
    /\ (\A k \in DOMAIN Targets(start_frame, end_frame) :
            Targets(start_frame, end_frame)[k] < req.N) => err # "frame"

\* a discard read failed and the run went on; the next target read failed and
\* ended it
C10_FailedSkipThenFailedTarget ==
    /\ err = "frame"
    /\ ReadsWith("skip", FALSE) # {}
    /\ Len(appended) >= 1

====
